---- MODULE Spec2Model ----
(***************************************************************************)
(* A model of the NASL linter (nasl/lint.c): nasl_lint and its passes      *)
(* make_call_func_list, nasl_lint_def, nasl_lint_call, nasl_lint_defvar    *)
(* and reverse_search, run on small syntax trees.  The statics of lint.c   *)
(* (current_fun_def, defined_flag, defined_fn_mode, defined_var_mode,      *)
(* def_glob_var, local_var_list) and the globals nasl_name and the current *)
(* file name survive a run; everything else is built and destroyed by      *)
(* nasl_lint.                                                              *)
(***************************************************************************)
EXTENDS Integers, Sequences, FiniteSets, TLC

VARIABLES script, pc, run, mem, prev, trace

vars == <<script, pc, run, mem, prev, trace>>

(* ---------------------------------------------------------------------- *)
(* Bounds                                                                 *)
(* ---------------------------------------------------------------------- *)
\* Number of top-level statements of a script.
MaxStmts == 3
\* Number of nasl_lint calls made on the same tree in one process.
MaxRuns == 2

(* ---------------------------------------------------------------------- *)
(* Syntax trees (tree_cell): type, x.str_val, line_nb, link[0..3].        *)
(* id is the identity of the cell (its address), used only to say which   *)
(* cells a pass visited.                                                  *)
(* ---------------------------------------------------------------------- *)
\* A NULL char pointer.
NoStr == ""

\* An absent child (NULL or FAKE_CELL in link[i]).
NoCell == [type |-> "NULL", str |-> NoStr, line |-> 0, id |-> 0, link |-> <<>>]

IsCell(c) == c.type # "NULL"

Node(type, str, ln, id, l0, l1) ==
  [type |-> type, str |-> str, line |-> ln, id |-> id,
   link |-> <<l0, l1, NoCell, NoCell>>]

Leaf(type, str, ln, id) == Node(type, str, ln, id, NoCell, NoCell)

\* The file names of the process: the script under test and one include.
MainFile == "main.nasl"
IncFile == "lib.inc"

\* A suffix test that no file name passes.
HasIncSuffixNever(name) == FALSE

\* g_str_has_suffix (name, ".inc"), on the file names of the process.
HasIncSuffix(name) == name \in {IncFile}

\* The functions the language runtime provides.
Builtins == {"display", "defined_func"}

\* The file each user function of the examples is written in.
FileOf(f) == IF f \in {"g", "h"} THEN IncFile ELSE MainFile

(* ---------------------------------------------------------------------- *)
(* The statements the scripts are made of.  Statement i of a script is on *)
(* line i and its cells have the ids 10*i+1 .. 10*i+9.                    *)
(* ---------------------------------------------------------------------- *)
\* f();
Call0(f, i, k) == Leaf("NODE_FUN_CALL", f, i, 10 * i + k)

\* f(e);  one anonymous argument
Call1(f, e, i, k) ==
  Node("NODE_FUN_CALL", f, i, 10 * i + k,
       Node("NODE_ARG", NoStr, i, 10 * i + k + 1, e, NoCell), NoCell)

\* f(p: 1, q: 2);  two named arguments
Call2(f, p, q, i, k) ==
  Node("NODE_FUN_CALL", f, i, 10 * i + k,
       Node("NODE_ARG", p, i, 10 * i + k + 1,
            Leaf("CONST_INT", NoStr, i, 10 * i + k + 2),
            Node("NODE_ARG", q, i, 10 * i + k + 3,
                 Leaf("CONST_INT", NoStr, i, 10 * i + k + 4), NoCell)),
       NoCell)

\* function f () body
FunDef(f, body, i) == Node("NODE_FUN_DEF", f, i, 10 * i + 1, NoCell, body)

\* s1; s2  inside a block
Block2(s1, s2, i, k) == Node("NODE_INSTR_L", NoStr, i, 10 * i + k, s1, s2)

Var(v, i, k) == Leaf("NODE_VAR", v, i, 10 * i + k)

\* v = e;
Aff(v, e, i, k) == Node("NODE_AFF", NoStr, i, 10 * i + k, Var(v, i, k + 1), e)

Pool ==
  {"call_b", "call_a", "call_g", "call_h",
   "def_a_b", "def_a_dup", "def_a_loc", "def_c_a", "def_c_g",
   "def_g_b", "def_g_rec", "def_g_h", "def_g_ok", "def_h_g",
   "dup_param", "aff_x", "read_x", "read_w", "not_y", "arr_z",
   "foreach_v", "global_x", "str_b", "str_a", "probe_x", "probe_b"}

Stmt(s, i) ==
  CASE s = "call_b" -> Call0("b", i, 1)
    [] s = "call_a" -> Call0("a", i, 1)
    [] s = "call_g" -> Call0("g", i, 1)
    [] s = "call_h" -> Call0("h", i, 1)
    \* function a () { b (); }
    [] s = "def_a_b" -> FunDef("a", Call0("b", i, 2), i)
    \* function a () { display (k: 1, k: 2); }
    [] s = "def_a_dup" -> FunDef("a", Call2("display", "k", "k", i, 2), i)
    \* function a (p) { local_var x; w = x; }
    [] s = "def_a_loc" ->
         Node("NODE_FUN_DEF", "a", i, 10 * i + 1,
              Leaf("NODE_DECL", "p", i, 10 * i + 2),
              Block2(Node("NODE_LOCAL", NoStr, i, 10 * i + 4,
                          Leaf("NODE_DECL", "x", i, 10 * i + 5), NoCell),
                     Aff("w", Var("x", i, 8), i, 6), i, 3))
    \* function c () { a (); }
    [] s = "def_c_a" -> FunDef("c", Call0("a", i, 2), i)
    \* function c () { g (); }
    [] s = "def_c_g" -> FunDef("c", Call0("g", i, 2), i)
    \* in lib.inc: function g () { b (); }
    [] s = "def_g_b" -> FunDef("g", Call0("b", i, 2), i)
    \* in lib.inc: function g () { g (); b (); }
    [] s = "def_g_rec" ->
         FunDef("g", Block2(Call0("g", i, 3), Call0("b", i, 4), i, 2), i)
    \* in lib.inc: function g () { h (); b (); }
    [] s = "def_g_h" ->
         FunDef("g", Block2(Call0("h", i, 3), Call0("b", i, 4), i, 2), i)
    \* in lib.inc: function g () { display (); }
    [] s = "def_g_ok" -> FunDef("g", Call0("display", i, 2), i)
    \* in lib.inc: function h () { g (); }
    [] s = "def_h_g" -> FunDef("h", Call0("g", i, 2), i)
    \* b (k: 1, k: 2);
    [] s = "dup_param" -> Call2("b", "k", "k", i, 1)
    \* x = 1;
    [] s = "aff_x" -> Aff("x", Leaf("CONST_INT", NoStr, i, 10 * i + 3), i, 1)
    \* display (x);
    [] s = "read_x" -> Call1("display", Var("x", i, 3), i, 1)
    \* display (w);
    [] s = "read_w" -> Call1("display", Var("w", i, 3), i, 1)
    \* display (!y);
    [] s = "not_y" ->
         Call1("display",
               Node("EXPR_NOT", NoStr, i, 10 * i + 3, Var("y", i, 4), NoCell),
               i, 1)
    \* display (z[0]);
    [] s = "arr_z" ->
         Call1("display",
               Node("NODE_ARRAY_EL", "z", i, 10 * i + 3,
                    Leaf("CONST_INT", NoStr, i, 10 * i + 4), NoCell),
               i, 1)
    \* foreach v (NULL) display (v);
    [] s = "foreach_v" ->
         Node("NODE_FOREACH", "v", i, 10 * i + 1,
              Var("NULL", i, 2), Call1("display", Var("v", i, 5), i, 3))
    \* global_var x;
    [] s = "global_x" ->
         Node("NODE_GLOBAL", NoStr, i, 10 * i + 1,
              Leaf("NODE_DECL", "x", i, 10 * i + 2), NoCell)
    \* display ("b");
    [] s = "str_b" -> Call1("display", Leaf("CONST_STR", "b", i, 10 * i + 3), i, 1)
    \* display ("a");
    [] s = "str_a" -> Call1("display", Leaf("CONST_STR", "a", i, 10 * i + 3), i, 1)
    \* defined_func (x);
    [] s = "probe_x" -> Call1("defined_func", Var("x", i, 3), i, 1)
    \* defined_func ("b");
    [] s = "probe_b" ->
         Call1("defined_func", Leaf("CONST_STR", "b", i, 10 * i + 3), i, 1)

\* The tree the parser builds: instr_decl_list chains NODE_INSTR_L cells, a
\* single declaration is its own root.
RECURSIVE BuildFrom(_, _)
BuildFrom(sc, i) ==
  IF i = Len(sc) THEN Stmt(sc[i], i)
  ELSE Node("NODE_INSTR_L", NoStr, i, 10 * i, Stmt(sc[i], i), BuildFrom(sc, i + 1))

Build(sc) == BuildFrom(sc, 1)

Scripts == UNION {[1 .. n -> Pool] : n \in 1 .. MaxStmts}

\* C link[i], i in 0..3.
Link(st, i) == st.link[i + 1]

(* ---------------------------------------------------------------------- *)
(* The memory of the process.                                             *)
(* ---------------------------------------------------------------------- *)
FuncNames == {"a", "b", "c", "g", "h"} \cup Builtins
Files == {MainFile, IncFile}

\* A key that is not in a hash table.
Absent == "ABSENT"

EmptyTab(keys) == [k \in keys |-> Absent]

\* The statics of lint.c as the program starts.
Statics0 ==
  [current_fun_def |-> NoStr, defined_flag |-> 0, defined_fn_mode |-> 0,
   defined_var_mode |-> 0, def_glob_var |-> 0, local_var_list |-> <<>>]

StaticsOf(m) ==
  [current_fun_def |-> m.current_fun_def, defined_flag |-> m.defined_flag,
   defined_fn_mode |-> m.defined_fn_mode, defined_var_mode |-> m.defined_var_mode,
   def_glob_var |-> m.def_glob_var, local_var_list |-> m.local_var_list]

NoSeen == [def1 |-> {}, call |-> {}, def0 |-> {}, var |-> {}]

RECURSIVE FunDefNames(_)
FunDefNames(st) ==
  IF ~IsCell(st) THEN {}
  ELSE (IF st.type = "NODE_FUN_DEF" THEN {st.str} ELSE {})
       \cup UNION {FunDefNames(Link(st, i)) : i \in 0 .. 3}

\* The parser's table of the file each function was declared in.
ParsedFilenames(tree) ==
  [f \in FuncNames |-> IF f \in FunDefNames(tree) THEN FileOf(f) ELSE Absent]

\* The process after parsing `tree` of file `top`, before any nasl_lint call.
Mem0(tree, top) ==
  [top |-> top, nasl_name |-> NoStr, debug_filename |-> top,
   functions_filenames |-> ParsedFilenames(tree),
   current_fun_def |-> NoStr, defined_flag |-> 0, defined_fn_mode |-> 0,
   defined_var_mode |-> 0, def_glob_var |-> 0, local_var_list |-> <<>>,
   tables |-> FALSE,
   called_funcs |-> <<>>, def_func_tree |-> <<>>,
   include_files |-> EmptyTab(Files), func_fnames_tab |-> EmptyTab(FuncNames),
   unusedfiles |-> <<>>, defined_var |-> <<>>,
   functions |-> [aux |-> {}, lexic |-> {}],
   line_nb |-> 0, diags |-> <<>>, ret |-> "FAKE", seen |-> NoSeen]

(* ---------------------------------------------------------------------- *)
(* Collaborators of lint.c                                                *)
(* ---------------------------------------------------------------------- *)
\* nasl_get_filename (function): the file the function was declared in, or
\* the current file.
NaslGetFilename(m, f) ==
  IF f \in FuncNames /\ m.functions_filenames[f] # Absent
  THEN m.functions_filenames[f] ELSE m.debug_filename

\* nasl_set_filename (filename)
NaslSetFilename(m, filename) == [m EXCEPT !.debug_filename = filename]

\* get_func_ref_by_name (lexic, name) != NULL
GetFuncRefByName(m, lexic, name) ==
  name \in Builtins \/ name \in m.functions[lexic]

\* decl_nasl_func (lexic, st, lint_mode) != NULL
DeclNaslFuncOk(m, lexic, name) == ~GetFuncRefByName(m, lexic, name)

\* decl_nasl_func (lexic, st, lint_mode): the context afterwards.
DeclNaslFunc(m, lexic, name, lint_mode) ==
  IF DeclNaslFuncOk(m, lexic, name)
  THEN [m EXCEPT !.functions[lexic] = @ \cup {name}]
  ELSE IF lint_mode = 0
       THEN [m EXCEPT !.diags = Append(@, [kind |-> "DuplicateFunctionDefinition",
                                            name |-> name, line |-> 0])]
       ELSE m

\* nasl_perror (lexic, ...) at lexic->line_nb
Perror(m, kind, name) ==
  [m EXCEPT !.diags = Append(@, [kind |-> kind, name |-> name, line |-> m.line_nb])]

(* ---------------------------------------------------------------------- *)
(* Lists                                                                  *)
(* ---------------------------------------------------------------------- *)
\* g_slist_find_custom (list, data, list_cmp) != NULL
InList(list, data) ==
  data # NoStr /\ \E k \in 1 .. Len(list) : list[k] = data

\* list_cmp1 (lelem, data) = 0
ListCmp1(lelem, data) == data # NoStr /\ lelem.func_name = data

\* g_slist_find_custom (def_func_tree, data, list_cmp1): the position of the
\* first (most recently prepended) record of callee `data`, 0 when none.
FindSite(list, data) ==
  IF \E k \in 1 .. Len(list) : ListCmp1(list[k], data)
  THEN CHOOSE k \in 1 .. Len(list) :
         /\ ListCmp1(list[k], data)
         /\ \A j \in 1 .. k - 1 : ~ListCmp1(list[j], data)
  ELSE 0

\* A reverse_search that finds every call needed.
ReverseSearchAlways(list, pos, nasl_name) == 1

\* reverse_search from the record at `pos`; `onpath` are the records the
\* recursion is already in.  1: needed, 0: not needed, -1: the recursion comes
\* back to a record it is in and never returns.
RECURSIVE ReverseSearchFrom(_, _, _, _)
ReverseSearchFrom(list, pos, nasl_name, onpath) ==
  LET fdata == list[pos]
      aux == FindSite(list, fdata.caller_func)
  IN IF fdata.caller_file = nasl_name /\ ~HasIncSuffix(nasl_name) THEN 1
     ELSE IF fdata.func_name = fdata.caller_func THEN 0
     ELSE IF aux = 0 THEN 0
     ELSE IF aux \in onpath \cup {pos} THEN -1
     ELSE ReverseSearchFrom(list, aux, nasl_name, onpath \cup {pos})

ReverseSearch(list, pos, nasl_name) == ReverseSearchFrom(list, pos, nasl_name, {})

(* ---------------------------------------------------------------------- *)
(* The passes.  Each takes the memory m with m.ret = "FAKE" and returns   *)
(* the memory afterwards; m.ret is the tree_cell it returns: "FAKE"       *)
(* (FAKE_CELL), "NULL", or "NORETURN" when reverse_search never returns.  *)
(* ---------------------------------------------------------------------- *)
Seen(m, pass, st) == [m EXCEPT !.seen[pass] = @ \cup {st.id}]

\* make_call_func_list
RECURSIVE MakeCallFuncList(_, _)
RECURSIVE MakeCallFuncListKids(_, _, _)
MakeCallFuncList(st, m) ==
  LET m1 == IF /\ st.type = "NODE_FUN_CALL"
               /\ st.str # NoStr
               /\ ~GetFuncRefByName(m, "aux", st.str)
            THEN [m EXCEPT !.called_funcs = <<st.str>> \o @]
            ELSE m
  IN MakeCallFuncListKids(st, 0, m1)

MakeCallFuncListKids(st, i, m) ==
  IF i > 3 THEN m
  ELSE IF ~IsCell(Link(st, i)) THEN MakeCallFuncListKids(st, i + 1, m)
  ELSE LET r == MakeCallFuncList(Link(st, i), m)
       IN IF r.ret # "FAKE" THEN r ELSE MakeCallFuncListKids(st, i + 1, r)

\* A loop over the arguments that finds nothing.
RepeatedParamNever(args, func_params) == NoStr

\* The loop over the arguments of a call in nasl_lint_def: the first argument
\* name met a second time, NoStr when there is none.
RECURSIVE RepeatedParam(_, _)
RepeatedParam(args, func_params) ==
  IF ~IsCell(args) THEN NoStr
  ELSE IF args.str = NoStr THEN RepeatedParam(Link(args, 1), func_params)
  ELSE IF InList(func_params, args.str) THEN args.str
  ELSE RepeatedParam(Link(args, 1), <<args.str>> \o func_params)

\* nasl_lint_def, the NODE_FUN_CALL part: record the call site, then in
\* lint_mode 1 look for an argument given twice.
LintDefCall(st, lint_mode, lexic, err_fname, m) ==
  LET m1 == IF ~GetFuncRefByName(m, lexic, st.str)
            THEN [m EXCEPT !.func_fnames_tab[st.str] = err_fname]
            ELSE m
      finfo == [func_name |-> st.str,
                caller_file |-> IF err_fname # NoStr THEN err_fname ELSE m.nasl_name,
                caller_func |-> m.current_fun_def]
      m2 == [m1 EXCEPT !.def_func_tree = <<finfo>> \o @]
      rep == IF lint_mode = 1 THEN RepeatedParam(Link(st, 0), <<>>) ELSE NoStr
  IN IF rep # NoStr
     THEN [m2 EXCEPT !.ret = "NULL",
                     !.diags = Append(@, [kind |-> "DuplicateCallParameter",
                                          name |-> rep, line |-> st.line])]
     ELSE m2

\* A nasl_lint_def that loads every definition.
LoadsEveryDef(st, m) == FALSE

\* "Check if it was already added": a definition whose name is not in the
\* list of called functions is left alone.
NeverCalledDef(st, m) ==
  st.type = "NODE_FUN_DEF" /\ ~InList(m.called_funcs, st.str)

\* nasl_lint_def
RECURSIVE LintDef(_, _, _, _, _)
RECURSIVE LintDefKids(_, _, _, _, _, _)
LintDef(st, lint_mode, lexic, err_fname, m) ==
  LET m0 == Seen(m, IF lint_mode = 1 THEN "def1" ELSE "def0", st)
      mc == IF st.type = "NODE_FUN_CALL"
            THEN LintDefCall(st, lint_mode, lexic, err_fname, m0) ELSE m0
  IN IF mc.ret # "FAKE" THEN mc
     ELSE IF st.type # "NODE_FUN_DEF"
     THEN LintDefKids(st, 0, lint_mode, lexic, err_fname, mc)
     ELSE IF lint_mode = 0
     THEN [DeclNaslFunc(mc, lexic, st.str, lint_mode) EXCEPT
             !.ret = IF DeclNaslFuncOk(mc, lexic, st.str) THEN "FAKE" ELSE "NULL"]
     ELSE IF NeverCalledDef(st, mc) THEN m
     ELSE LET md == [DeclNaslFunc(mc, lexic, st.str, lint_mode) EXCEPT
                       !.current_fun_def = st.str]
              incname == NaslGetFilename(md, st.str)
              me == [md EXCEPT !.include_files[incname] = "NO"]
              tmp_filename == NaslGetFilename(me, NoStr)
              mk == LintDefKids(st, 0, lint_mode, lexic, incname, me)
          IN IF mk.ret # "FAKE" THEN mk ELSE NaslSetFilename(mk, tmp_filename)

LintDefKids(st, i, lint_mode, lexic, err_fname, m) ==
  IF i > 3 THEN m
  ELSE IF ~IsCell(Link(st, i))
  THEN LintDefKids(st, i + 1, lint_mode, lexic, err_fname, m)
  ELSE LET r == LintDef(Link(st, i), lint_mode, lexic, err_fname, m)
       IN IF r.ret # "FAKE" THEN r
          ELSE LintDefKids(st, i + 1, lint_mode, lexic, err_fname, r)

\* A nasl_lint_call that marks no file.
MarksNoFile(st, m) == m

\* nasl_lint_call: the file of the called function, when it is in
\* include_files, is marked "YES".
MarkFileUsed(st, m) ==
  LET fname == NaslGetFilename(m, st.str)
  IN IF st.str # NoStr /\ m.include_files[fname] # Absent
     THEN [m EXCEPT !.include_files[fname] = "YES"] ELSE m

\* nasl_lint_call, the NODE_FUN_CALL case up to the fall through.
LintCallCall(st, m) ==
  LET pf == GetFuncRefByName(m, "aux", st.str)
      incname == m.func_fnames_tab[st.str]
      m1 == IF incname \notin {Absent, NoStr} THEN NaslSetFilename(m, incname) ELSE m
      m2 == [m1 EXCEPT !.line_nb = st.line]
      called_f_aux == FindSite(m.def_func_tree, st.str)
      needed == IF called_f_aux = 0 THEN 0
                ELSE ReverseSearch(m.def_func_tree, called_f_aux, m.nasl_name)
      m3 == IF pf THEN m ELSE m2
      m4 == MarkFileUsed(st, m3)
  IN IF ~pf /\ needed = 1
     THEN [Perror(m2, "UndefinedFunction", st.str) EXCEPT !.ret = "NULL"]
     ELSE IF ~pf /\ needed = -1 THEN [m2 EXCEPT !.ret = "NORETURN"]
     ELSE IF st.str = "defined_func" THEN [m4 EXCEPT !.defined_flag = 1]
     ELSE m4

\* A nasl_lint_call that goes into every definition.
CallSkipsNothing(st, m) == FALSE

\* "If it is never called it does not go deeper."
CallSkips(st, m) ==
  st.type = "NODE_FUN_DEF" /\ ~InList(m.called_funcs, st.str)

\* A constant that registers its function and leaves the flag as it is.
LintCallConstSticky(st, m) ==
  IF st.str # NoStr /\ m.defined_flag = 1
  THEN DeclNaslFunc(m, "aux", st.str, 1)
  ELSE m

\* nasl_lint_call, the constants: after a call of defined_func the next
\* constant with a string declares the function of that name.
LintCallConst(st, m) ==
  IF st.str # NoStr /\ m.defined_flag = 1
  THEN [DeclNaslFunc(m, "aux", st.str, 1) EXCEPT !.defined_flag = 0]
  ELSE m

\* nasl_lint_call
RECURSIVE LintCall(_, _)
RECURSIVE LintCallKids(_, _, _)
LintCall(st, m) ==
  LET m0 == Seen(m, "call", st)
  IN IF CallSkips(st, m) THEN m
     ELSE IF st.type \in {"CONST_DATA", "CONST_STR"}
     THEN LintCallConst(st, m0)
     ELSE IF st.type = "NODE_FUN_CALL"
     THEN LET mc == LintCallCall(st, m0)
          IN IF mc.ret # "FAKE" THEN mc ELSE LintCallKids(st, 0, mc)
     ELSE LintCallKids(st, 0, m0)

LintCallKids(st, i, m) ==
  IF i > 3 THEN m
  ELSE IF ~IsCell(Link(st, i)) THEN LintCallKids(st, i + 1, m)
  ELSE LET r == LintCall(Link(st, i), m)
       IN IF r.ret # "FAKE" THEN r ELSE LintCallKids(st, i + 1, r)

\* add_predef_varname: the keywords, then the names of the library.
PredefKeywords ==
  <<"ACT_UNKNOWN", "description", "NULL", "SCRIPT_NAME", "COMMAND_LINE",
    "_FCT_ANON_ARGS">>

\* add_nasl_library (defined_var): the constants of the library.
AddNaslLibrary(defined_var) == <<"TRUE", "FALSE">> \o defined_var

RECURSIVE PrependAll(_, _, _)
PrependAll(keywords, i, defined_var) ==
  IF i > Len(keywords) THEN defined_var
  ELSE PrependAll(keywords, i + 1, <<keywords[i]>> \o defined_var)

AddPredefVarname(defined_var) ==
  AddNaslLibrary(PrependAll(PredefKeywords, 1, defined_var))

\* nasl_lint_defvar, the work on the cell itself (before its children):
\* the flags, the lists, and the check of a variable that is read.
DefvarCell(st, m) ==
  LET m1 == IF (m.defined_fn_mode = 1 \/ m.def_glob_var = 1) /\ st.type # "NODE_DECL"
            THEN [m EXCEPT !.defined_fn_mode = 0, !.def_glob_var = 0]
            ELSE m
  IN IF /\ st.type \in {"NODE_AFF", "EXPR_NOT", "EXPR_INCR", "NODE_PLUS_EQ"}
        /\ m1.defined_var_mode = 0
     THEN [m1 EXCEPT !.defined_var_mode = 1]
     ELSE IF st.type \in {"NODE_FUN_DEF", "NODE_LOCAL"} /\ m1.defined_fn_mode = 0
     THEN [m1 EXCEPT !.defined_fn_mode = 1]
     ELSE IF st.type = "NODE_GLOBAL"
     THEN [m1 EXCEPT !.def_glob_var = 1]
     ELSE IF /\ st.type \in {"NODE_VAR", "NODE_ARRAY_EL"}
             /\ (m1.defined_var_mode = 1 \/ m1.defined_fn_mode = 1)
     THEN IF st.str = NoStr THEN m1
          ELSE [m1 EXCEPT
                  !.defined_var = IF InList(m1.local_var_list, st.str) THEN @
                                  ELSE <<st.str>> \o @,
                  !.defined_var_mode = 0]
     ELSE IF st.type = "NODE_DECL" /\ st.str # NoStr
     THEN [m1 EXCEPT
             !.local_var_list = IF m1.defined_fn_mode = 1 THEN <<st.str>> \o @ ELSE @,
             !.defined_var = IF m1.def_glob_var = 1 THEN <<st.str>> \o @ ELSE @]
     ELSE IF st.type = "NODE_FOREACH"
     THEN IF st.str = NoStr THEN m1
          ELSE [m1 EXCEPT !.defined_var = <<st.str>> \o @]
     ELSE IF st.type = "NODE_VAR" /\ m1.defined_var_mode = 0
     THEN IF /\ ~InList(m1.defined_var, st.str)
             /\ ~InList(m1.local_var_list, st.str)
          THEN [Perror([m1 EXCEPT !.line_nb = st.line], "UndeclaredVariable", st.str)
                  EXCEPT !.ret = "NULL"]
          ELSE m1
     ELSE m1

\* "If it is never called it does not go deeper."
DefvarSkips(st, m) ==
  st.type = "NODE_FUN_DEF" /\ ~InList(m.called_funcs, st.str)

\* nasl_lint_defvar
RECURSIVE Defvar(_, _)
RECURSIVE DefvarKids(_, _, _)
Defvar(st, m) ==
  IF DefvarSkips(st, m) THEN m
  ELSE LET mc == DefvarCell(st, Seen(m, "var", st))
           mk == IF mc.ret # "FAKE" THEN mc ELSE DefvarKids(st, 0, mc)
       IN IF mk.ret = "FAKE" /\ st.type = "NODE_FUN_DEF"
          THEN [mk EXCEPT !.local_var_list = <<>>]
          ELSE mk

\* A loop over the children that goes on after a child returned NULL.
RECURSIVE DefvarKidsOn(_, _, _)
DefvarKidsOn(st, i, m) ==
  IF i > 3 THEN m
  ELSE IF ~IsCell(Link(st, i)) THEN DefvarKidsOn(st, i + 1, m)
  ELSE DefvarKidsOn(st, i + 1, Defvar(Link(st, i), m))

DefvarKids(st, i, m) ==
  IF i > 3 THEN m
  ELSE IF ~IsCell(Link(st, i)) THEN DefvarKids(st, i + 1, m)
  ELSE LET r == Defvar(Link(st, i), m)
       IN IF r.ret # "FAKE" THEN r ELSE DefvarKids(st, i + 1, r)

\* check_called_files over the hash table, then print_uncall_files over the
\* list it built.
RECURSIVE CheckCalledFiles(_, _, _)
CheckCalledFiles(include_files, keys, unusedfiles) ==
  IF keys = <<>> THEN unusedfiles
  ELSE CheckCalledFiles(include_files, Tail(keys),
                        IF include_files[Head(keys)] = "NO"
                        THEN <<Head(keys)>> \o unusedfiles ELSE unusedfiles)

RECURSIVE PrintUncallFiles(_, _)
PrintUncallFiles(unusedfiles, m) ==
  IF unusedfiles = <<>> THEN m
  ELSE PrintUncallFiles(Tail(unusedfiles),
                        Perror(m, "UnusedIncludeFile", Head(unusedfiles)))

(* ---------------------------------------------------------------------- *)
(* nasl_lint, statement by statement.                                     *)
(* ---------------------------------------------------------------------- *)
\* The entry: nasl_name, the two hash tables, the auxiliary context.
LintEnter(st, m) ==
  [m EXCEPT !.nasl_name = NaslGetFilename(m, st.str),
            !.tables = TRUE,
            !.called_funcs = <<>>, !.def_func_tree = <<>>,
            !.include_files = EmptyTab(Files),
            !.func_fnames_tab = EmptyTab(FuncNames),
            !.unusedfiles = <<>>, !.defined_var = <<>>,
            !.functions = [aux |-> {}, lexic |-> {}],
            !.line_nb = 0, !.diags = <<>>, !.ret = "FAKE", !.seen = NoSeen]

\* "Loads all defined functions.": lint_mode 1, the auxiliary context.
LintLoad(st, m) == LintDef(st, 1, "aux", NoStr, m)

\* A second pass that leaves lint_mode at 1.
LintDupCheckMode1(st, m) == LintDef(st, 1, "lexic", NoStr, m)

\* "Now check that each function was loaded just once.": lint_mode 0, the
\* caller's context.
LintDupCheck(st, m) == LintDef(st, 0, "lexic", NoStr, m)

\* "Check if the included files are used or not."
LintIncludes(m) ==
  LET unusedfiles == CheckCalledFiles(m.include_files, <<MainFile, IncFile>>, <<>>)
      m1 == PrintUncallFiles(unusedfiles, [m EXCEPT !.unusedfiles = unusedfiles])
  IN IF Len(unusedfiles) > 0 THEN [m1 EXCEPT !.ret = "NULL"] ELSE m1

\* "Check if a variable was declared."
LintDefvar(st, m) ==
  [Defvar(st, [m EXCEPT !.defined_var = AddPredefVarname(<<>>)])
     EXCEPT !.defined_var = <<>>]

\* The label fail: every table is freed.
LintCleanup(m) ==
  [m EXCEPT !.tables = FALSE,
            !.called_funcs = <<>>, !.def_func_tree = <<>>,
            !.include_files = EmptyTab(Files),
            !.func_fnames_tab = EmptyTab(FuncNames),
            !.unusedfiles = <<>>,
            !.functions = [aux |-> {}, lexic |-> @.lexic]]

\* nasl_lint from entry to return, as one function of the tree and the
\* memory it starts in.
NaslLint(st, m) ==
  LET e == LintEnter(st, m)
      l == MakeCallFuncList(st, e)
      d1 == LintLoad(st, l)
      c == IF d1.ret = "FAKE" THEN LintCall(st, d1) ELSE d1
      u == IF c.ret = "FAKE" THEN LintIncludes(c) ELSE c
      d0 == IF u.ret = "FAKE" THEN LintDupCheck(st, u) ELSE u
      v == IF d0.ret = "FAKE" THEN LintDefvar(st, d0) ELSE d0
  IN IF v.ret = "NORETURN" THEN v ELSE LintCleanup(v)

(* ---------------------------------------------------------------------- *)
(* The state machine: one process that parses a script and calls          *)
(* nasl_lint on its tree, MaxRuns times.                                  *)
(* ---------------------------------------------------------------------- *)
Tree == Build(script)

\* The file name the parser was given: a script, or an include file linted
\* on its own.
TopFiles == {MainFile, IncFile}

NoResult ==
  [ret |-> "NONE", diags |-> <<>>, statics |-> Statics0, debug_filename |-> NoStr]

Init ==
  /\ script \in Scripts
  /\ \E top \in TopFiles : mem = Mem0(Build(script), top)
  /\ pc = "enter"
  /\ run = 1
  /\ prev = NoResult
  /\ trace = <<>>

\* The passes the run has made so far, each with what it returned.
Ran(pass, m) == Append(trace, [pass |-> pass, ret |-> m.ret])

Enter ==
  /\ pc = "enter"
  /\ mem' = LintEnter(Tree, mem)
  /\ pc' = "make_list"
  /\ UNCHANGED <<script, run, prev, trace>>

MakeList ==
  /\ pc = "make_list"
  /\ mem' = MakeCallFuncList(Tree, mem)
  /\ pc' = "def1"
  /\ trace' = Ran("make_list", mem')
  /\ UNCHANGED <<script, run, prev>>

\* A nasl_lint that goes on to the next pass whatever the last one returned.
AfterAlways(m, next) == next

After(m, next) ==
  IF m.ret = "NORETURN" THEN "aborted" ELSE IF m.ret = "NULL" THEN "fail" ELSE next

Def1 ==
  /\ pc = "def1"
  /\ mem' = LintLoad(Tree, mem)
  /\ pc' = After(mem', "call")
  /\ trace' = Ran("def1", mem')
  /\ UNCHANGED <<script, run, prev>>

Call ==
  /\ pc = "call"
  /\ mem' = LintCall(Tree, mem)
  /\ pc' = After(mem', "includes")
  /\ trace' = Ran("call", mem')
  /\ UNCHANGED <<script, run, prev>>

Includes ==
  /\ pc = "includes"
  /\ mem' = LintIncludes(mem)
  /\ pc' = After(mem', "def0")
  /\ trace' = Ran("includes", mem')
  /\ UNCHANGED <<script, run, prev>>

Def0 ==
  /\ pc = "def0"
  /\ mem' = LintDupCheck(Tree, mem)
  /\ pc' = After(mem', "defvar")
  /\ trace' = Ran("def0", mem')
  /\ UNCHANGED <<script, run, prev>>

DefvarPass ==
  /\ pc = "defvar"
  /\ mem' = LintDefvar(Tree, mem)
  /\ pc' = "fail"
  /\ trace' = Ran("defvar", mem')
  /\ UNCHANGED <<script, run, prev>>

Cleanup ==
  /\ pc = "fail"
  /\ mem' = LintCleanup(mem)
  /\ pc' = "returned"
  /\ UNCHANGED <<script, run, prev, trace>>

\* The caller lints the same tree once more, with a new context of its own.
Again ==
  /\ pc = "returned"
  /\ run < MaxRuns
  /\ prev' = [ret |-> mem.ret, diags |-> mem.diags, statics |-> StaticsOf(mem),
              debug_filename |-> mem.debug_filename]
  /\ run' = run + 1
  /\ pc' = "enter"
  /\ trace' = <<>>
  /\ UNCHANGED <<script, mem>>

Next ==
  \/ Enter
  \/ MakeList
  \/ Def1
  \/ Call
  \/ Includes
  \/ Def0
  \/ DefvarPass
  \/ Cleanup
  \/ Again

Spec == Init /\ [][Next]_vars

(* ---------------------------------------------------------------------- *)
(* What a script says, read off its statements (not off the passes).      *)
(* ---------------------------------------------------------------------- *)
RECURSIVE CallNames(_)
CallNames(st) ==
  IF ~IsCell(st) THEN {}
  ELSE (IF st.type = "NODE_FUN_CALL" THEN {st.str} ELSE {})
       \cup UNION {CallNames(Link(st, i)) : i \in 0 .. 3}

StmtAt(k) == Stmt(script[k], k)
Stmts == 1 .. Len(script)
DefStmts == {k \in Stmts : StmtAt(k).type = "NODE_FUN_DEF"}
IdsOf(k) == 10 * k + 1 .. 10 * k + 9

\* The functions the script defines, and the names called somewhere in it.
Defined == {StmtAt(k).str : k \in DefStmts}
Called == UNION {CallNames(StmtAt(k)) : k \in Stmts}

\* Names called by top-level code, and by the bodies of the definitions of f.
TopCalls == UNION {CallNames(StmtAt(k)) : k \in Stmts \ DefStmts}
BodyCalls(f) == UNION {CallNames(StmtAt(k)) : k \in {d \in DefStmts : StmtAt(d).str = f}}

\* The defined functions that a chain of calls starting at top level reaches.
RECURSIVE ReachFrom(_, _)
ReachFrom(fs, n) ==
  IF n = 0 THEN fs
  ELSE ReachFrom(fs \cup (UNION {BodyCalls(f) : f \in fs} \cap Defined), n - 1)

Reached == ReachFrom(TopCalls \cap Defined, Cardinality(FuncNames))

Undefined(f) == f \notin Builtins /\ f \notin Defined

\* The undefined names that code reachable from top level calls.
ReachedUndefined ==
  {f \in TopCalls \cup UNION {BodyCalls(g) : g \in Reached} : Undefined(f)}

HasDiag(kind) == \E i \in 1 .. Len(mem.diags) : mem.diags[i].kind = kind

Probes == "defined_func" \in Called

(* ---------------------------------------------------------------------- *)
(* C1                                                                     *)
(* ---------------------------------------------------------------------- *)
\* C1: when nasl_lint returns from a script in which code reachable from top
\* level calls a name that is neither a builtin nor defined, it returns NULL
\* and has reported "Undefined function".  Stated for the first run on a
\* script file (not an include file) that does not use defined_func and about
\* which nothing else is reported.
C1_ReachableUndefinedReported ==
  (/\ pc = "returned" /\ run = 1
   /\ mem.nasl_name = MainFile
   /\ ~Probes
   /\ \A i \in 1 .. Len(mem.diags) : mem.diags[i].kind = "UndefinedFunction"
   /\ ReachedUndefined # {})
  => /\ mem.ret = "NULL"
     /\ HasDiag("UndefinedFunction")

(* ---------------------------------------------------------------------- *)
(* C2                                                                     *)
(* ---------------------------------------------------------------------- *)
RemoveAt(sc, k) == SubSeq(sc, 1, k - 1) \o SubSeq(sc, k + 1, Len(sc))

\* nasl_lint's verdict on a script in a new process.
Verdict(sc) ==
  IF sc = <<>> THEN "FAKE"
  ELSE NaslLint(Build(sc), Mem0(Build(sc), mem.top)).ret

\* Statement k defines a function that is defined once and called nowhere,
\* and every call of an undefined name is in its body.
DeadDefWithUndefined(k) ==
  /\ k \in DefStmts
  /\ StmtAt(k).str \notin Called
  /\ \A j \in DefStmts \ {k} : StmtAt(j).str # StmtAt(k).str
  /\ \E f \in CallNames(StmtAt(k)) : Undefined(f)
  /\ \A j \in Stmts \ {k} : \A f \in CallNames(StmtAt(j)) : ~Undefined(f)

Loaded == Defined \cap Called

\* The loaded functions from which a chain of calls through loaded functions
\* leads to f (f itself included when loaded).
RECURSIVE CallersFrom(_, _)
CallersFrom(fs, n) ==
  IF n = 0 THEN fs
  ELSE CallersFrom(fs \cup {h \in Loaded : BodyCalls(h) \cap fs # {}}, n - 1)

Callers(f) == CallersFrom({f}, Cardinality(FuncNames)) \cap Loaded

UndefinedDiags ==
  {i \in 1 .. Len(mem.diags) : mem.diags[i].kind = "UndefinedFunction"}

\* The name a diagnostic reports is called by top-level code or by a function
\* reached from top level.
AtReachedCode(i) ==
  mem.diags[i].name \in TopCalls \cup UNION {BodyCalls(g) : g \in Reached}

DefinedTwice == \E j, k \in DefStmts : j # k /\ StmtAt(j).str = StmtAt(k).str

\* C4 as stated: a script that defines a name twice is rejected with
\* DuplicateFunctionDefinition.
C4_DuplicateAlwaysReported ==
  (pc = "returned" /\ DefinedTwice) =>
    mem.ret = "NULL" /\ HasDiag("DuplicateFunctionDefinition")

\* C4 amended: a script that defines a name twice is rejected whenever
\* nasl_lint returns, and with DuplicateFunctionDefinition from the pass in
\* lint_mode 0 when the passes before it (definitions in lint_mode 1, call
\* validation, include usage) report nothing, called or not.
C4_DuplicateReportedWhenReached ==
  (pc = "returned" /\ DefinedTwice) =>
    /\ mem.ret = "NULL"
    /\ \/ HasDiag("DuplicateFunctionDefinition")
       \/ HasDiag("DuplicateCallParameter")
       \/ HasDiag("UndefinedFunction")
       \/ HasDiag("UnusedIncludeFile")
    /\ HasDiag("DuplicateFunctionDefinition") => mem.seen.var = {}

\* Two definitions of a function that is never called, rejected in lint_mode 0.
C4_Witness ==
  /\ pc = "returned"
  /\ \E j, k \in DefStmts :
       j # k /\ StmtAt(j).str = StmtAt(k).str /\ StmtAt(j).str \notin Called
  /\ mem.diags = <<[kind |-> "DuplicateFunctionDefinition",
                     name |-> "a", line |-> 0]>>

(* ---------------------------------------------------------------------- *)
(* C5                                                                     *)
(* ---------------------------------------------------------------------- *)
Range(seq) == {seq[i] : i \in 1 .. Len(seq)}

PredefNames == Range(AddPredefVarname(<<>>))

\* The names read before any assignment, declaration or foreach binding of
\* them, going through a tree depth first, left to right.  r.d: the names
\* assigned, declared or bound so far; r.bad: the names read too early.  The
\* operand of an assignment, a compound assignment, an increment or a negation
\* counts as assigned.
RECURSIVE RefScan(_, _)
RECURSIVE RefScanKids(_, _, _)
RefScan(st, r) ==
  IF st.type \in {"NODE_AFF", "NODE_PLUS_EQ", "EXPR_INCR", "EXPR_NOT"}
     /\ Link(st, 0).type \in {"NODE_VAR", "NODE_ARRAY_EL"}
  THEN RefScanKids(st, 1,
         RefScanKids(Link(st, 0), 0, [r EXCEPT !.d = @ \cup {Link(st, 0).str}]))
  ELSE IF st.type \in {"NODE_DECL", "NODE_FOREACH"}
  THEN RefScanKids(st, 0, [r EXCEPT !.d = @ \cup {st.str}])
  ELSE IF st.type \in {"NODE_VAR", "NODE_ARRAY_EL"}
  THEN RefScanKids(st, 0,
         IF st.str \in r.d \cup PredefNames THEN r
         ELSE [r EXCEPT !.bad = @ \cup {st.str}])
  ELSE RefScanKids(st, 0, r)

RefScanKids(st, i, r) ==
  IF i > 3 THEN r
  ELSE IF ~IsCell(Link(st, i)) THEN RefScanKids(st, i + 1, r)
  ELSE RefScanKids(st, i + 1, RefScan(Link(st, i), r))

\* Statement by statement; what a function definition assigns counts, what it
\* reads does not.
RECURSIVE RefScanFrom(_, _)
RefScanFrom(k, r) ==
  IF k > Len(script) THEN r
  ELSE LET q == RefScan(StmtAt(k), r)
       IN RefScanFrom(k + 1, IF k \in DefStmts THEN [q EXCEPT !.bad = r.bad] ELSE q)

ReadTooEarly == RefScanFrom(1, [d |-> {}, bad |-> {}]).bad

\* C5: a script whose top-level code reads a variable before any assignment,
\* declaration or foreach binding of it, the name not being predefined, is
\* rejected with "The variable ... was not declared".  Stated for the first
\* run and for scripts in which the passes before report nothing.
C5_EarlyReadReported ==
  (/\ pc = "returned" /\ run = 1
   /\ ReadTooEarly # {}
   /\ ~HasDiag("DuplicateCallParameter") /\ ~HasDiag("UndefinedFunction")
   /\ ~HasDiag("UnusedIncludeFile") /\ ~HasDiag("DuplicateFunctionDefinition"))
  => mem.ret = "NULL" /\ HasDiag("UndeclaredVariable")

(* ---------------------------------------------------------------------- *)
(* C6, C7                                                                 *)
(* ---------------------------------------------------------------------- *)
\* The script includes the file: it holds a definition written in it.
ScriptIncludes(file) ==
  file # mem.top /\ \E f \in Defined : FileOf(f) = file

\* A function of the file is called somewhere in the tree.
CalledInto(file) == \E f \in Defined \cap Called : FileOf(f) = file

\* A function of the file is called outside the definitions that are never
\* called (where nasl_lint_call goes).
CalledIntoLive(file) ==
  \E f \in Defined : /\ FileOf(f) = file
                      /\ f \in TopCalls \cup UNION {BodyCalls(g) : g \in Loaded}

ReportedUnused(file) ==
  \E i \in 1 .. Len(mem.diags) :
    mem.diags[i].kind = "UnusedIncludeFile" /\ mem.diags[i].name = file

\* C6: a script that includes a file none of whose functions is called is
\* rejected with "The included file ... is never used".  Stated for the first
\* run and for scripts about which nothing else is reported.
C6_UnusedIncludeReported ==
  (/\ pc = "returned" /\ run = 1
   /\ ScriptIncludes(IncFile) /\ ~CalledInto(IncFile)
   /\ \A i \in 1 .. Len(mem.diags) :
        mem.diags[i].kind = "UnusedIncludeFile" /\ mem.diags[i].name = IncFile)
  => mem.ret = "NULL" /\ ReportedUnused(IncFile)

RECURSIVE ArgNames(_)
ArgNames(args) ==
  IF ~IsCell(args) THEN <<>>
  ELSE (IF args.str # NoStr THEN <<args.str>> ELSE <<>>) \o ArgNames(Link(args, 1))

RECURSIVE HasRepeatedParam(_)
HasRepeatedParam(st) ==
  /\ IsCell(st)
  /\ \/ /\ st.type = "NODE_FUN_CALL"
        /\ \E i, j \in 1 .. Len(ArgNames(Link(st, 0))) :
             i < j /\ ArgNames(Link(st, 0))[i] = ArgNames(Link(st, 0))[j]
     \/ \E i \in 0 .. 3 : HasRepeatedParam(Link(st, i))

\* The statements with a call that names an argument twice, and those of them
\* that are not the definition of a never-called function.
RepeatStmts == {k \in Stmts : HasRepeatedParam(StmtAt(k))}
LiveRepeatStmts == {k \in RepeatStmts : k \in DefStmts => StmtAt(k).str \in Called}

Min(S) == CHOOSE x \in S : \A y \in S : x <= y

\* C8 as stated: every call that names an argument twice makes nasl_lint
\* return NULL with the "provided multiple times" message.  Stated for
\* scripts about which nothing else is reported.
C8_EveryRepeatReported ==
  (/\ pc = "returned" /\ RepeatStmts # {}
   /\ \A i \in 1 .. Len(mem.diags) : mem.diags[i].kind = "DuplicateCallParameter")
  => mem.ret = "NULL" /\ HasDiag("DuplicateCallParameter")

\* C8 amended: a call that names an argument twice and is not inside the
\* definition of a never-called function makes nasl_lint return NULL; the
\* message is raised by nasl_lint_def in lint_mode 1 at the first such call
\* and is the only diagnostic, no later pass runs, and it does not matter
\* whether the called function is defined.
C8_LiveRepeatReported ==
  (pc \notin {"enter", "make_list", "def1"} /\ LiveRepeatStmts # {}) =>
    /\ pc \in {"fail", "returned"}
    /\ mem.ret = "NULL"
    /\ mem.diags = <<[kind |-> "DuplicateCallParameter", name |-> "k",
                       line |-> Min(LiveRepeatStmts)]>>
    /\ mem.seen.call = {} /\ mem.seen.def0 = {} /\ mem.seen.var = {}

\* b (k: 1, k: 2) with b defined nowhere, rejected.
C8_Witness ==
  /\ pc = "returned"
  /\ \E k \in LiveRepeatStmts : \E f \in CallNames(StmtAt(k)) : Undefined(f)
  /\ HasDiag("DuplicateCallParameter")

(* ---------------------------------------------------------------------- *)
(* C9, C10                                                                *)
(* ---------------------------------------------------------------------- *)
\* C9: a second nasl_lint on the same tree gives the verdict and the
\* diagnostics of the first.  Stated for a second run that starts with the
\* current file name the first run started with.
C9_SecondRunSame ==
  (pc = "returned" /\ run = 2 /\ prev.debug_filename = mem.top) =>
    mem.ret = prev.ret /\ mem.diags = prev.diags

\* C10: when nasl_lint returns, its tables are destroyed and no static of the
\* passes holds anything of the run: flags at 0, no current function, no
\* local variable.
C10_NothingLeftBehind ==
  pc = "returned" =>
    /\ ~mem.tables
    /\ mem.called_funcs = <<>> /\ mem.def_func_tree = <<>>
    /\ mem.include_files = EmptyTab(Files)
    /\ mem.func_fnames_tab = EmptyTab(FuncNames)
    /\ mem.unusedfiles = <<>> /\ mem.defined_var = <<>>
    /\ mem.functions.aux = {}
    /\ StaticsOf(mem) = Statics0

(* ---------------------------------------------------------------------- *)
(* C11                                                                    *)
(* ---------------------------------------------------------------------- *)
PassOrder == <<"make_list", "def1", "call", "includes", "def0", "defvar">>

AllSucceeded ==
  Len(trace) = Len(PassOrder) /\ \A i \in 1 .. Len(trace) : trace[i].ret = "FAKE"

\* C11: the passes of a run are made in the order call-graph build, definition
\* pass (reachability), call validation, include-usage check, definition pass
\* (duplicate check), variable-scope pass; a pass is made only when every pass
\* before it returned FAKE_CELL; and nasl_lint returns FAKE_CELL exactly when
\* all six were made and each returned FAKE_CELL.
C11_PassOrder ==
  /\ Len(trace) <= Len(PassOrder)
  /\ \A i \in 1 .. Len(trace) : trace[i].pass = PassOrder[i]
  /\ \A i \in 1 .. Len(trace) - 1 : trace[i].ret = "FAKE"
  /\ pc = "returned" => (mem.ret = "FAKE" <=> AllSucceeded)
  /\ pc = "returned" => mem.ret \in {"FAKE", "NULL"}

\* A run that made all six passes and accepted a script with a definition
\* and a call.
C11_Witness ==
  /\ pc = "returned" /\ AllSucceeded /\ mem.ret = "FAKE"
  /\ mem.nasl_name = MainFile
  /\ Reached # {} /\ ReachedUndefined = {}

(* ---------------------------------------------------------------------- *)
(* C12                                                                    *)
(* ---------------------------------------------------------------------- *)
\* The cells of a tree in the order a traversal meets them.
RECURSIVE Preorder(_)
Preorder(st) ==
  IF ~IsCell(st) THEN <<>>
  ELSE <<st>> \o Preorder(Link(st, 0)) \o Preorder(Link(st, 1))
            \o Preorder(Link(st, 2)) \o Preorder(Link(st, 3))

ImmediateKinds ==
  {"UndefinedFunction", "DuplicateFunctionDefinition", "UndeclaredVariable",
   "DuplicateCallParameter"}

ImmediateDiags == {i \in 1 .. Len(mem.diags) : mem.diags[i].kind \in ImmediateKinds}

\* The set of cells a pass went through is kept under this name.
SeenKey(pass) == IF pass = "defvar" THEN "var" ELSE pass

Traversals == {"def1", "call", "def0", "defvar"}

\* The cell the diagnostic d is about.
Signals(n, d) ==
  CASE d.kind = "DuplicateCallParameter" ->
         n.type = "NODE_FUN_CALL" /\ n.line = d.line /\ HasRepeatedParam(n)
    [] d.kind = "UndefinedFunction" ->
         n.type = "NODE_FUN_CALL" /\ n.str = d.name /\ n.line = d.line
    [] d.kind = "UndeclaredVariable" ->
         n.type = "NODE_VAR" /\ n.str = d.name /\ n.line = d.line
    [] d.kind = "DuplicateFunctionDefinition" ->
         n.type = "NODE_FUN_DEF" /\ n.str = d.name
    [] OTHER -> FALSE

\* The traversal `pass` went through cell k of the tree and through no cell
\* after it.
StoppedAt(pass, k) ==
  LET cells == Preorder(Tree)
  IN /\ cells[k].id \in mem.seen[SeenKey(pass)]
     /\ \A j \in k + 1 .. Len(cells) : cells[j].id \notin mem.seen[SeenKey(pass)]

\* The passes after number i of the run went through no cell.
NoneAfter(i) ==
  \A j \in i + 1 .. Len(PassOrder) :
    PassOrder[j] \in Traversals => mem.seen[SeenKey(PassOrder[j])] = {}

\* C12: a run reports at most one diagnostic of the four immediate kinds;
\* when a traversal returned NULL it is the last pass of the run, the
\* diagnostic is about a cell it went through, it went through no cell after
\* that one, and no later traversal went through any cell.
C12_FailFast ==
  /\ Cardinality(ImmediateDiags) <= 1
  /\ \A i \in 1 .. Len(trace) :
       (trace[i].ret = "NULL" /\ trace[i].pass \in Traversals) =>
         /\ i = Len(trace)
         /\ NoneAfter(i)
         /\ Cardinality(ImmediateDiags) = 1
         /\ \E k \in 1 .. Len(Preorder(Tree)) :
              /\ Signals(Preorder(Tree)[k], mem.diags[Len(mem.diags)])
              /\ StoppedAt(trace[i].pass, k)

\* The variable-scope pass returned NULL at a cell that has cells after it.
C12_Witness ==
  /\ pc = "returned" /\ trace # <<>>
  /\ trace[Len(trace)].pass = "defvar" /\ trace[Len(trace)].ret = "NULL"
  /\ \E k \in 1 .. Len(Preorder(Tree)) - 1 :
       /\ Signals(Preorder(Tree)[k], mem.diags[Len(mem.diags)])
       /\ StoppedAt("defvar", k)

(* ---------------------------------------------------------------------- *)
(* C13                                                                    *)
(* ---------------------------------------------------------------------- *)
\* C13: reverse_search returns for every list of call sites the definition
\* pass builds, so that call validation always returns, with FAKE_CELL or with
\* NULL: no run stops inside it.
C13_SearchReturns ==
  /\ pc # "aborted"
  /\ \A i \in 1 .. Len(trace) : trace[i].ret # "NORETURN"

(* ---------------------------------------------------------------------- *)
(* C14                                                                    *)
(* ---------------------------------------------------------------------- *)
\* The calls of a tree in traversal order, each with `caller` as its caller.
CallsIn(st, caller) ==
  LET calls == SelectSeq(Preorder(st), LAMBDA n : n.type = "NODE_FUN_CALL")
  IN [i \in 1 .. Len(calls) |-> [func_name |-> calls[i].str, caller_func |-> caller]]

\* The call sites of the script from statement k on, in traversal order: a
\* call in the definition of a called function has that function as caller, a
\* call outside every definition has none, and the definition of a function
\* that is never called gives no call site.
RECURSIVE SitesFrom(_)
SitesFrom(k) ==
  IF k > Len(script) THEN <<>>
  ELSE (IF k \notin DefStmts THEN CallsIn(StmtAt(k), NoStr)
        ELSE IF StmtAt(k).str \in Called THEN CallsIn(StmtAt(k), StmtAt(k).str)
        ELSE <<>>)
       \o SitesFrom(k + 1)

\* C14: when the definition pass (reachability mode) has returned, the list
\* of call sites holds one record for each call it went through, most recent
\* first, and the caller each record names is the function whose definition
\* encloses the call, or none for a call outside every definition.  Stated
\* for the first run.
C14_CallerIsEnclosingFunction ==
  (pc = "call" /\ run = 1) =>
    LET list == mem.def_func_tree
        sites == SitesFrom(1)
    IN /\ Len(list) = Len(sites)
       /\ \A i \in 1 .. Len(list) :
            /\ list[Len(list) + 1 - i].func_name = sites[i].func_name
            /\ list[Len(list) + 1 - i].caller_func = sites[i].caller_func

(* ---------------------------------------------------------------------- *)
(* C15                                                                    *)
(* ---------------------------------------------------------------------- *)
NothingScanned == [d |-> {}, bad |-> {}]

\* The names a tree assigns with `=`.
AffTargets(st) ==
  {Link(n, 0).str : n \in {c \in Range(Preorder(st)) : c.type = "NODE_AFF"}}

\* The names a tree reads as plain variables without defining them first.
VarReads(st) ==
  {n.str : n \in {c \in Range(Preorder(st)) : c.type = "NODE_VAR"}}
    \cap RefScan(st, NothingScanned).bad

\* Statement k defines a called function that assigns v, statement j after it
\* is top-level code that reads v, and nothing outside function definitions
\* assigns, declares or binds v.
LocalOnly(v, k, j) ==
  /\ k \in DefStmts /\ StmtAt(k).str \in Called
  /\ v \in AffTargets(StmtAt(k))
  /\ j \in Stmts \ DefStmts /\ k < j
  /\ v \in VarReads(StmtAt(j))
  /\ v \notin PredefNames
  /\ \A i \in Stmts \ DefStmts : v \notin RefScan(StmtAt(i), NothingScanned).d

\* C15: a name assigned only inside the definition of a called function is
\* local to it, so that a script whose top-level code reads the name after
\* the definition is rejected with "The variable ... was not declared".
\* Stated for the first run and for scripts about which nothing else is
\* reported.
C15_AssignedInFunctionIsLocal ==
  (/\ pc = "returned" /\ run = 1
   /\ \E v \in {"w", "x", "y", "z"} : \E k, j \in Stmts : LocalOnly(v, k, j)
   /\ \A i \in 1 .. Len(mem.diags) : mem.diags[i].kind = "UndeclaredVariable")
  => mem.ret = "NULL" /\ HasDiag("UndeclaredVariable")

(* ---------------------------------------------------------------------- *)
(* C16                                                                    *)
(* ---------------------------------------------------------------------- *)
\* The names a tree reads as array elements without defining them first.
ArrayReads(st) ==
  {n.str : n \in {c \in Range(Preorder(st)) : c.type = "NODE_ARRAY_EL"}}
    \cap RefScan(st, NothingScanned).bad

\* C16: an array-element read is checked as a plain variable read is: a
\* script whose top-level code reads an element of an array that nothing
\* before assigned, declared or bound, the name not being predefined, is
\* rejected with "The variable ... was not declared".  Stated for the first
\* run and for scripts about which nothing else is reported.
C16_ArrayReadChecked ==
  (/\ pc = "returned" /\ run = 1
   /\ \E j \in Stmts \ DefStmts : ArrayReads(StmtAt(j)) \cap ReadTooEarly # {}
   /\ \A i \in 1 .. Len(mem.diags) : mem.diags[i].kind = "UndeclaredVariable")
  => mem.ret = "NULL" /\ HasDiag("UndeclaredVariable")

(* ---------------------------------------------------------------------- *)
(* C17                                                                    *)
(* ---------------------------------------------------------------------- *)
\* The cells of the statements from k on, in traversal order, without the
\* definitions of functions that are never called.
RECURSIVE LiveFrom(_)
LiveFrom(k) ==
  IF k > Len(script) THEN <<>>
  ELSE (IF k \in DefStmts /\ StmtAt(k).str \notin Called THEN <<>>
        ELSE Preorder(StmtAt(k)))
       \o LiveFrom(k + 1)

\* After the first n of the cells: whether a defined_func call still waits
\* for its constant, and the names the constants after such calls gave.
RECURSIVE ProbeScan(_, _)
ProbeScan(cells, n) ==
  IF n = 0 THEN [flag |-> 0, reg |-> {}]
  ELSE LET r == ProbeScan(cells, n - 1)
           c == cells[n]
       IN IF c.type \in {"CONST_STR", "CONST_DATA"} /\ c.str # NoStr /\ r.flag = 1
          THEN [flag |-> 0, reg |-> r.reg \cup {c.str}]
          ELSE IF c.type = "NODE_FUN_CALL" /\ c.str = "defined_func"
          THEN [r EXCEPT !.flag = 1]
          ELSE r

\* The functions of the auxiliary context and the flag are as after the
\* first n cells.
ProbedAsAfter(cells, n) ==
  /\ mem.functions.aux = Loaded \cup ProbeScan(cells, n).reg
  /\ mem.defined_flag = ProbeScan(cells, n).flag

\* C17: in the call validation of a first run, a call of defined_func makes
\* the next constant with a string, and no constant after it, register the
\* function of that name; the functions registered are exactly those; and a
\* call reported as undefined names no function registered before it.
C17_ProbeRegistersNextConstant ==
  (/\ run = 1 /\ pc \in {"includes", "fail"}
   /\ trace # <<>> /\ trace[Len(trace)].pass = "call")
  => LET cells == LiveFrom(1)
     IN IF mem.ret = "FAKE" THEN ProbedAsAfter(cells, Len(cells))
        ELSE \E j \in 1 .. Len(cells) :
               /\ Signals(cells[j], mem.diags[Len(mem.diags)])
               /\ cells[j].str \notin ProbeScan(cells, j - 1).reg
               /\ ProbedAsAfter(cells, j - 1)

\* A script linted under its own name passes call validation with a
\* top-level call of a function that is defined nowhere and was registered by
\* a constant before it, and a constant with a string after that one.
C17_Witness ==
  /\ run = 1 /\ pc = "includes" /\ mem.nasl_name = MainFile
  /\ LET cells == LiveFrom(1)
     IN \E i, j \in 1 .. Len(cells) :
          /\ cells[j].type = "NODE_FUN_CALL" /\ Undefined(cells[j].str)
          /\ cells[j].line \notin DefStmts
          /\ cells[j].str \in ProbeScan(cells, j - 1).reg
          /\ i > j /\ cells[i].type = "CONST_STR" /\ cells[i].str # cells[j].str

(* ---------------------------------------------------------------------- *)
(* C18                                                                    *)
(* ---------------------------------------------------------------------- *)
\* The most recent call site of callee `name` in the list (the list has the
\* most recent first), 0 when there is none.
MostRecent(list, name) ==
  LET S == {k \in 1 .. Len(list) : list[k].func_name = name}
  IN IF name = NoStr \/ S = {} THEN 0 ELSE Min(S)

\* The site reached from site pos by moving n times to the most recent call
\* site of the caller, 0 once a caller has no call site.
RECURSIVE ChainSite(_, _, _)
ChainSite(list, pos, n) ==
  IF n = 0 THEN pos
  ELSE LET p == ChainSite(list, pos, n - 1)
       IN IF p = 0 THEN 0 ELSE MostRecent(list, list[p].caller_func)

\* From site pos the chain comes to a site recorded in file nasl before it
\* comes to a self-calling site or to the end, and nasl is not an include
\* file.
ChainNeeded(list, pos, nasl) ==
  /\ nasl # IncFile
  /\ \E n \in 0 .. Len(list) :
       /\ ChainSite(list, pos, n) # 0
       /\ list[ChainSite(list, pos, n)].caller_file = nasl
       /\ \A j \in 0 .. n - 1 :
            list[ChainSite(list, pos, j)].func_name
              # list[ChainSite(list, pos, j)].caller_func

\* C18: on the call-site list of a run, reverse_search started at any record
\* returns 1 exactly when the chain from that record comes to a record of the
\* file under test before a self-calling record or the end of the chain, the
\* file under test not being an include file; a reported undefined function
\* has such a chain from its most recent call site; and a run on an include
\* file reports no undefined function.
C18_NeededIsChainToTopFile ==
  mem.tables =>
    /\ \A pos \in 1 .. Len(mem.def_func_tree) :
         (ReverseSearch(mem.def_func_tree, pos, mem.nasl_name) = 1)
           <=> ChainNeeded(mem.def_func_tree, pos, mem.nasl_name)
    /\ HasDiag("UndefinedFunction") =>
         /\ MostRecent(mem.def_func_tree, mem.diags[Len(mem.diags)].name) # 0
         /\ ChainNeeded(mem.def_func_tree,
                        MostRecent(mem.def_func_tree, mem.diags[Len(mem.diags)].name),
                        mem.nasl_name)
    /\ mem.nasl_name = IncFile => ~HasDiag("UndefinedFunction")

\* An undefined function is reported whose most recent call site is in the
\* include file: the chain moves at least once before it comes to the file
\* under test.
C18_Witness ==
  /\ pc = "fail" /\ mem.tables /\ HasDiag("UndefinedFunction")
  /\ LET p == MostRecent(mem.def_func_tree, mem.diags[Len(mem.diags)].name)
     IN p # 0 /\ mem.def_func_tree[p].caller_file # mem.nasl_name

(* ---------------------------------------------------------------------- *)
(* C19                                                                    *)
(* ---------------------------------------------------------------------- *)
\* The call cells call validation has gone through in this run.
ValidatedCalls ==
  {c \in Range(Preorder(Tree)) : c.type = "NODE_FUN_CALL" /\ c.id \in mem.seen.call}

\* C19: every cell call validation goes through, the definition pass in
\* reachability mode went through in the same run; and while the tables of
\* the run exist, the call-site list holds a record for the callee of every
\* call that call validation went through.
C19_ValidatedCallsWereRecorded ==
  /\ mem.seen.call \subseteq mem.seen.def1
  /\ mem.tables =>
       \A c \in ValidatedCalls : MostRecent(mem.def_func_tree, c.str) # 0

\* Call validation has returned from a script with a call of a function that
\* is no builtin, and with a never-called definition that has a call in it.
C19_Witness ==
  /\ pc = "includes"
  /\ \E c \in ValidatedCalls : c.str \notin Builtins
  /\ \E k \in DefStmts : StmtAt(k).str \notin Called /\ CallNames(StmtAt(k)) # {}

====
